---- MODULE Spec2Model ----
(***************************************************************************)
(* Model of universal-repo-explorer-ai.                                    *)
(*                                                                         *)
(*  - SpecServer: the analyze-repo edge function                           *)
(*    (src/supabase/functions/analyze-repo/index.ts): input validation,    *)
(*    credential check, the three GitHub collectors, prompt assembly, the  *)
(*    generation call and its status mapping.                              *)
(*  - SpecClient: the page component (src/unnamed/part_000): handleAnalyze *)
(*    with its SSE decoding loop.                                          *)
(*                                                                         *)
(* JavaScript strings are sequences of one-character strings where the     *)
(* code looks inside them (the wire), and sequences of fragments where it  *)
(* only concatenates them (messages, the prompt).                          *)
(***************************************************************************)
EXTENDS Integers, Sequences, FiniteSets, TLC

VARIABLES
    \* ---- analyze-repo edge function ----
    LOVABLE_API_KEY,  \* Deno.env: TRUE iff the secret is configured
    spc,              \* position of the serve handler
    req,              \* the inbound request being handled
    readme,           \* fetchReadme's result
    issues,           \* fetchIssues's result
    stats,            \* fetchRepoStats's result (present = FALSE: null)
    inflight,         \* collector fetches started and not yet settled
    github,           \* how each GitHub fetch of this request ended
    answers,          \* history: what each GitHub fetch was answered
    order,            \* history: the collectors in the order they settled
    calls,            \* outbound fetches issued for this request
    upstream,         \* the generation service's answer, once it arrived
    userContent,      \* the user message sent to the generation service
    response,         \* the Response returned, or NoResponse
    genLog,           \* what console.error logged of the upstream body
    \* ---- page component ----
    cpc,              \* position of handleAnalyze
    analysis,         \* useState: the accumulated report
    isLoading,        \* useState
    error,            \* useState: the inline error message, "" when none
    stream,           \* the response body (resp.body), as the names of its lines
    pos,              \* how many of its bytes the reader has handed over
    done,             \* the done flag of the last reader.read()
    decoder,          \* TextDecoder: bytes of an unfinished character
    buffer,           \* let buffer
    result,           \* let result
    deltas,           \* history: the content of every frame parsed so far
    sentinelSeen,     \* history: a [DONE] frame has been decoded
    left,             \* history: how the last pass of the inner loop was left
    analysisSections, \* useMemo: parseSections(analysis)
    mounted           \* the component is mounted

serverVars == <<LOVABLE_API_KEY, spc, req, readme, issues, stats, inflight,
                github, answers, order, calls, upstream, userContent, response,
                genLog>>
clientVars == <<cpc, analysis, isLoading, error, stream, pos, done,
                decoder, buffer, result, deltas, sentinelSeen, left,
                analysisSections, mounted>>
vars == <<serverVars, clientVars>>

\* The page component as mounted: nothing typed, nothing analysed.
ClientIdle ==
    /\ cpc = "idle"
    /\ analysis = <<>>
    /\ isLoading = FALSE
    /\ error = ""
    /\ stream = <<>>
    /\ pos = 0
    /\ done = FALSE
    /\ decoder = <<>>
    /\ buffer = <<>>
    /\ result = <<>>
    /\ deltas = <<>>
    /\ sentinelSeen = FALSE
    /\ left = "none"
    /\ analysisSections = <<>>
    /\ mounted = TRUE

(***************************************************************************)
(* Helpers on sequences.                                                   *)
(***************************************************************************)
Min(a, b) == IF a < b THEN a ELSE b

RECURSIVE Flatten(_)
Flatten(ss) == IF ss = <<>> THEN <<>> ELSE Head(ss) \o Flatten(Tail(ss))

\* Array.prototype.join on an array of fragment sequences
RECURSIVE Join(_, _)
Join(ss, sep) ==
    IF ss = <<>> THEN <<>>
    ELSE IF Len(ss) = 1 THEN ss[1]
    ELSE ss[1] \o <<sep>> \o Join(Tail(ss), sep)

Contains(seq, x) == \E i \in 1..Len(seq) : seq[i] = x

(***************************************************************************)
(*                     analyze-repo edge function                          *)
(***************************************************************************)

\* JavaScript undefined, for a field the JSON body does not carry
UNDEF == "<undefined>"

Owners == {UNDEF, "", "foo", "k8s"}
Repos  == {UNDEF, "", "bar"}

\* Inbound requests: a CORS preflight, or a POST whose body is unparseable,
\* the JSON value null, or a JSON object with (or without) owner and repo.
Requests ==
    [method : {"OPTIONS"}, body : {"none"}, owner : {UNDEF}, repo : {UNDEF}]
    \cup [method : {"POST"}, body : {"badjson", "null"}, owner : {UNDEF}, repo : {UNDEF}]
    \cup [method : {"POST"}, body : {"object"}, owner : Owners, repo : Repos]

NoRequest == [method |-> "none", body |-> "none", owner |-> UNDEF, repo |-> UNDEF]

\* !x for the values owner and repo take here
Falsy_UndefinedOnly(x) == x = UNDEF
Falsy(x) == x = UNDEF \/ x = ""

\* ---- what the GitHub API can answer ----
\* kind: "neterr" fetch() rejects; "notok" a non-2xx status; "bodyerr" the body
\* cannot be read or parsed; "ok" a 2xx status with a well-formed body.
ReadmeTexts == { <<>>, <<"#", " ", "H", "i">> }
ReadmeOutcomes ==
    [kind : {"neterr", "notok", "bodyerr"}, text : {<<>>}]
    \cup [kind : {"ok"}, text : ReadmeTexts]

RawIssue1 == [title |-> "Fix docs", hasLabels |-> TRUE,
              labels |-> <<"good first issue", "bug">>, state |-> "open",
              comments |-> "2", html_url |-> "u1"]
RawIssue2 == [title |-> "Crash", hasLabels |-> FALSE, labels |-> <<>>,
              state |-> "open", comments |-> "0", html_url |-> "u2"]
IssueArrays == { <<>>, <<RawIssue1>>, <<RawIssue1, RawIssue2>> }
\* "notarray": a 2xx body that is valid JSON but no array (issues.map throws)
IssuesOutcomes ==
    [kind : {"neterr", "notok", "bodyerr", "notarray"}, arr : {<<>>}]
    \cup [kind : {"ok"}, arr : IssueArrays]

RawStats1 == [stargazers_count |-> "42", forks_count |-> "7",
              open_issues_count |-> "3", language |-> "Go",
              hasLicense |-> TRUE, spdx_id |-> "MIT",
              updated_at |-> "2026-01-01", description |-> "desc",
              hasTopics |-> TRUE, topics |-> <<"cncf", "k8s">>]
RawStats2 == [stargazers_count |-> "0", forks_count |-> "0",
              open_issues_count |-> "0", language |-> "null",
              hasLicense |-> FALSE, spdx_id |-> "",
              updated_at |-> "2025-01-01", description |-> "null",
              hasTopics |-> FALSE, topics |-> <<>>]
\* "null": a 2xx body that is the JSON value null (data.stargazers_count throws)
StatsOutcomes ==
    [kind : {"neterr", "notok", "bodyerr", "null"}, data : {RawStats2}]
    \cup [kind : {"ok"}, data : {RawStats1, RawStats2}]

\* ---- what the generation service can answer ----
UpstreamErrorText == <<"upstream says: key sk-123 over quota">>
GenBodies == {"sse-a", "sse-b"}
GenStatuses == {200, 429, 402, 401, 503}
\* kind: "neterr" fetch() rejects; "status" a response with that status whose
\* error text can be read; "textfail" one whose error text cannot be read.
GenOutcomes ==
    [kind : {"neterr"}, status : {0}, text : {<<>>}, body : {""}]
    \cup [kind : {"status"}, status : {200}, text : {<<>>}, body : GenBodies]
    \cup [kind : {"status", "textfail"}, status : GenStatuses \ {200},
          text : {UpstreamErrorText}, body : {""}]

NoUpstream == [kind |-> "none", status |-> 0, text |-> <<>>, body |-> ""]

\* response.ok taking every status for a success
ResponseOk_Always(status) == TRUE
\* response.ok
ResponseOk(status) == status >= 200 /\ status <= 299

\* ---- Response objects ----
NoResponse == [status |-> 0, ctype |-> "", error |-> <<>>, body |-> ""]
JsonError(status, msg) ==
    [status |-> status, ctype |-> "application/json", error |-> msg, body |-> ""]
PreflightResponse == [status |-> 200, ctype |-> "", error |-> <<>>, body |-> ""]
StreamResponse(body) ==
    [status |-> 200, ctype |-> "text/event-stream", error |-> <<>>, body |-> body]

MsgProvide      == <<"Please provide owner and repo">>
MsgNoKey        == <<"LOVABLE_API_KEY is not configured">>
MsgNotFound(owner, repo) ==
    <<"Repository ", owner, "/", repo, " not found or inaccessible.">>
MsgRateLimit    == <<"Rate limit exceeded. Please try again later.">>
MsgCredits      == <<"AI usage limit reached. Please add credits.">>
MsgAIFailed     == <<"AI analysis failed.">>
\* e.message of what the runtime throws
MsgBadJson      == <<"<SyntaxError: request body is not JSON>">>
MsgDestructure  == <<"<TypeError: cannot destructure null>">>
MsgFetchFailed  == <<"<TypeError: fetch failed>">>
MsgBodyFailed   == <<"<TypeError: error reading the body>">>

\* README_LIMIT: text.substring(0, 6000)
README_LIMIT == 6000

\* fetchReadme degrading to the empty text on a non-success status
fetchReadme_EmptyDefault(o) ==
    CASE o.kind = "neterr"  -> <<"Failed to fetch README.">>
      [] o.kind = "notok"   -> <<>>
      [] o.kind = "bodyerr" -> <<"Failed to fetch README.">>
      [] OTHER              -> SubSeq(o.text, 1, Min(Len(o.text), README_LIMIT))

fetchReadme(o) ==
    CASE o.kind = "neterr"  -> <<"Failed to fetch README.">>
      [] o.kind = "notok"   -> <<"README not found.">>
      [] o.kind = "bodyerr" -> <<"Failed to fetch README.">>
      [] OTHER              -> SubSeq(o.text, 1, Min(Len(o.text), README_LIMIT))

mapIssue(i) ==
    [title |-> i.title,
     labels |-> IF i.hasLabels THEN i.labels ELSE <<>>,
     state |-> i.state, comments |-> i.comments, url |-> i.html_url]

fetchIssues(o) ==
    IF o.kind = "ok" THEN [k \in 1..Len(o.arr) |-> mapIssue(o.arr[k])] ELSE <<>>

NullStats == [present |-> FALSE, stars |-> "", forks |-> "", open_issues |-> "",
              language |-> "", license |-> "", last_updated |-> "",
              description |-> "", topics |-> <<>>]

\* fetchRepoStats without the res.ok check: the body of an error answer is used
fetchRepoStats_NoOkCheck(o) ==
    IF o.kind \in {"ok", "notok"}
    THEN [present |-> TRUE,
          stars |-> o.data.stargazers_count,
          forks |-> o.data.forks_count,
          open_issues |-> o.data.open_issues_count,
          language |-> o.data.language,
          license |-> IF o.data.hasLicense THEN o.data.spdx_id ELSE "None",
          last_updated |-> o.data.updated_at,
          description |-> o.data.description,
          topics |-> IF o.data.hasTopics THEN o.data.topics ELSE <<>>]
    ELSE NullStats

fetchRepoStats(o) ==
    IF o.kind = "ok"
    THEN [present |-> TRUE,
          stars |-> o.data.stargazers_count,
          forks |-> o.data.forks_count,
          open_issues |-> o.data.open_issues_count,
          language |-> o.data.language,
          license |-> IF o.data.hasLicense THEN o.data.spdx_id ELSE "None",
          last_updated |-> o.data.updated_at,
          description |-> o.data.description,
          topics |-> IF o.data.hasTopics THEN o.data.topics ELSE <<>>]
    ELSE NullStats

\* a.join(", ") || dflt, for an array of non-empty strings
JoinOr(a, dflt) ==
    IF a = <<>> THEN <<dflt>> ELSE Join([k \in 1..Len(a) |-> <<a[k]>>], ", ")

Digits == <<"1", "2", "3", "4", "5", "6", "7", "8", "9">>

\* (the em dash and the emoji of the template are written in ASCII)
RenderIssue(i, idx) ==
    <<Digits[idx], ". **", i.title, "** -- Labels: [">>
    \o JoinOr(i.labels, "none")
    \o <<"] -- Comments: ", i.comments>>

RenderIssues(is) ==
    IF Len(is) > 0
    THEN Join([k \in 1..Len(is) |-> RenderIssue(is[k], k)], "\n")
    ELSE <<"No open issues found.">>

BuildUserContent(owner, repo, st, rd, is) ==
    <<"Analyze this GitHub repository: **", owner, "/", repo, "**",
      "\n\n**Repository Stats:**\n- Stars: ", st.stars,
      "\n- Forks: ", st.forks,
      "\n- Open Issues: ", st.open_issues,
      "\n- Language: ", st.language,
      "\n- License: ", st.license,
      "\n- Last Updated: ", st.last_updated,
      "\n- Description: ", st.description,
      "\n- Topics: ">>
    \o JoinOr(st.topics, "None")
    \o <<"\n\n**README (first 6000 chars):**\n<fence>\n">>
    \o rd
    \o <<"\n<fence>\n\n**Open Issues (up to 15):**\n">>
    \o RenderIssues(is)

Collectors == {"readme", "issues", "stats"}

NoAnswers == [readme |-> "none", issues |-> "none", stats |-> "none"]

\* No fetch has been answered yet
NoOutcomes ==
    [readme |-> [kind |-> "none", text |-> <<>>],
     issues |-> [kind |-> "none", arr |-> <<>>],
     stats  |-> [kind |-> "none", data |-> RawStats2]]

\* Promise.all resolving as soon as one of the promises has
AllSettled_First(pending) == pending # Collectors
\* await Promise.all([...]): every promise has settled
AllSettled(pending) == pending = {}

\* !LOVABLE_API_KEY
KeyMissing_NoCheck(key) == FALSE
KeyMissing(key) == ~key

ServerInit ==
    /\ LOVABLE_API_KEY \in BOOLEAN
    /\ spc = "idle"
    /\ req = NoRequest
    /\ readme = <<>>
    /\ issues = <<>>
    /\ stats = NullStats
    /\ inflight = {}
    /\ github = NoAnswers
    /\ answers = NoOutcomes
    /\ order = <<>>
    /\ calls = {}
    /\ upstream = NoUpstream
    /\ userContent = <<>>
    /\ response = NoResponse
    /\ genLog = <<>>
    /\ ClientIdle

\* The secret is set or removed in the function's environment.
SetEnv ==
    /\ LOVABLE_API_KEY' = ~LOVABLE_API_KEY
    /\ UNCHANGED <<spc, req, readme, issues, stats, inflight, github, answers, order,
                   calls, upstream, userContent, response, genLog, clientVars>>

\* serve handler, from the request to the start of the three collector fetches
Receive(r) ==
    /\ spc \in {"idle", "responded"}
    /\ req' = r
    /\ readme' = <<>> /\ issues' = <<>> /\ stats' = NullStats
    /\ upstream' = NoUpstream /\ userContent' = <<>> /\ genLog' = <<>>
    /\ github' = NoAnswers
    /\ answers' = NoOutcomes
    /\ order' = <<>>
    /\ UNCHANGED <<LOVABLE_API_KEY, clientVars>>
    /\ IF r.method = "OPTIONS"
       THEN /\ response' = PreflightResponse
            /\ spc' = "responded" /\ calls' = {} /\ inflight' = {}
       ELSE IF r.body = "badjson"
       THEN /\ response' = JsonError(500, MsgBadJson)
            /\ spc' = "responded" /\ calls' = {} /\ inflight' = {}
       ELSE IF r.body = "null"
       THEN /\ response' = JsonError(500, MsgDestructure)
            /\ spc' = "responded" /\ calls' = {} /\ inflight' = {}
       ELSE IF Falsy(r.owner) \/ Falsy(r.repo)
       THEN /\ response' = JsonError(400, MsgProvide)
            /\ spc' = "responded" /\ calls' = {} /\ inflight' = {}
       ELSE IF KeyMissing(LOVABLE_API_KEY)
       THEN /\ response' = JsonError(500, MsgNoKey)
            /\ spc' = "responded" /\ calls' = {} /\ inflight' = {}
       ELSE /\ response' = NoResponse
            /\ spc' = "collect"
            /\ calls' = Collectors
            /\ inflight' = Collectors

ReadmeSettles(o) ==
    /\ spc = "collect" /\ "readme" \in inflight
    /\ readme' = fetchReadme(o)
    /\ inflight' = inflight \ {"readme"}
    /\ github' = [github EXCEPT !.readme = o.kind]
    /\ answers' = [answers EXCEPT !.readme = o]
    /\ order' = Append(order, "readme")
    /\ UNCHANGED <<LOVABLE_API_KEY, spc, req, issues, stats, calls, upstream,
                   userContent, response, genLog, clientVars>>

IssuesSettle(o) ==
    /\ spc = "collect" /\ "issues" \in inflight
    /\ issues' = fetchIssues(o)
    /\ inflight' = inflight \ {"issues"}
    /\ github' = [github EXCEPT !.issues = o.kind]
    /\ answers' = [answers EXCEPT !.issues = o]
    /\ order' = Append(order, "issues")
    /\ UNCHANGED <<LOVABLE_API_KEY, spc, req, readme, stats, calls, upstream,
                   userContent, response, genLog, clientVars>>

StatsSettle(o) ==
    /\ spc = "collect" /\ "stats" \in inflight
    /\ stats' = fetchRepoStats(o)
    /\ inflight' = inflight \ {"stats"}
    /\ github' = [github EXCEPT !.stats = o.kind]
    /\ answers' = [answers EXCEPT !.stats = o]
    /\ order' = Append(order, "stats")
    /\ UNCHANGED <<LOVABLE_API_KEY, spc, req, readme, issues, calls, upstream,
                   userContent, response, genLog, clientVars>>

\* serve handler, from the join of Promise.all to the generation fetch
Joined ==
    /\ spc = "collect" /\ AllSettled(inflight)
    /\ IF ~stats.present
       THEN /\ response' = JsonError(404, MsgNotFound(req.owner, req.repo))
            /\ spc' = "responded"
            /\ UNCHANGED <<calls, userContent>>
       ELSE /\ userContent' = BuildUserContent(req.owner, req.repo, stats, readme, issues)
            /\ calls' = calls \cup {"gen"}
            /\ spc' = "generate"
            /\ UNCHANGED response
    /\ UNCHANGED <<LOVABLE_API_KEY, req, readme, issues, stats, inflight,
                   github, answers, order, upstream, genLog, clientVars>>

\* The Response built from the generation service's answer
GenResponse(o) ==
    IF o.kind = "neterr" THEN JsonError(500, MsgFetchFailed)
    ELSE IF ~ResponseOk(o.status)
    THEN IF o.status = 429 THEN JsonError(429, MsgRateLimit)
         ELSE IF o.status = 402 THEN JsonError(402, MsgCredits)
         ELSE IF o.kind = "textfail" THEN JsonError(500, MsgBodyFailed)
         ELSE JsonError(500, MsgAIFailed)
    ELSE StreamResponse(o.body)

\* console.error("AI gateway error:", response.status, t)
GenLogged(o) ==
    IF o.kind = "status" /\ ~ResponseOk(o.status) /\ o.status \notin {429, 402}
    THEN o.text ELSE <<>>

\* serve handler, from the generation service's answer to the Response
GenSettles(o) ==
    /\ spc = "generate"
    /\ upstream' = o
    /\ response' = GenResponse(o)
    /\ genLog' = GenLogged(o)
    /\ spc' = "responded"
    /\ UNCHANGED <<LOVABLE_API_KEY, req, readme, issues, stats, inflight,
                   github, answers, order, calls, userContent, clientVars>>

ServerNext ==
    \/ SetEnv
    \/ \E r \in Requests : Receive(r)
    \/ \E o \in ReadmeOutcomes : ReadmeSettles(o)
    \/ \E o \in IssuesOutcomes : IssuesSettle(o)
    \/ \E o \in StatsOutcomes : StatsSettle(o)
    \/ Joined
    \/ \E o \in GenOutcomes : GenSettles(o)

SpecServer == ServerInit /\ [][ServerNext]_vars

(***************************************************************************)
(*            Properties of the analyze-repo edge function                 *)
(***************************************************************************)

\* The collector fetches of the request in hand have all settled and the
\* handler has moved past the join.
PastJoin == Collectors \subseteq calls /\ inflight = {} /\ spc \in {"generate", "responded"}

StatsFailureKinds == {"neterr", "notok", "bodyerr", "null"}

\* C5: when the statistics fetch ended in a non-success status, a network
\* failure or a malformed body, the generation service is not called for the
\* request and, whatever README and issues returned, the request is answered
\* 404 with "Repository <owner>/<repo> not found or inaccessible.".
C5_StatsUnavailableIs404 ==
    github.stats \in StatsFailureKinds =>
        /\ "gen" \notin calls
        /\ spc # "generate"
        /\ spc = "responded" =>
              response = [status |-> 404, ctype |-> "application/json",
                          error |-> <<"Repository ", req.owner, "/", req.repo,
                                      " not found or inaccessible.">>,
                          body |-> ""]

C5_Witness ==
    /\ spc = "responded" /\ github.stats = "notok" /\ response.status = 404
    /\ github.readme = "ok" /\ github.issues = "ok"
    /\ req.owner = "foo" /\ req.repo = "bar"

ReadmeFailed == github.readme \in {"neterr", "notok", "bodyerr"}
IssuesFailed == github.issues \in {"neterr", "notok", "bodyerr", "notarray"}
ExactlyOneEnrichmentFailed ==
    /\ PastJoin /\ github.stats = "ok"
    /\ (ReadmeFailed /\ github.issues = "ok") \/ (IssuesFailed /\ github.readme = "ok")

\* C6 as claimed: with statistics available and exactly one of README and
\* issues failed in any way, the generation call is made and the prompt holds
\* "README not found." (README failed) or "No open issues found." (issues failed).
C6_AsClaimed ==
    ExactlyOneEnrichmentFailed =>
        /\ "gen" \in calls
        /\ ReadmeFailed => Contains(userContent, "README not found.")
        /\ IssuesFailed => Contains(userContent, "No open issues found.")

\* C6 (amended): with statistics available and exactly one of README and
\* issues failed, the generation call is made and the prompt holds "README not
\* found." when the README answer had a non-success status, "Failed to fetch
\* README." when the README fetch or the reading of its body failed, and
\* "No open issues found." when the issues source failed in any way.
C6_SafeDefaults ==
    ExactlyOneEnrichmentFailed =>
        /\ "gen" \in calls
        /\ github.readme = "notok" => Contains(userContent, "README not found.")
        /\ github.readme \in {"neterr", "bodyerr"} =>
              Contains(userContent, "Failed to fetch README.")
        /\ IssuesFailed => Contains(userContent, "No open issues found.")

C6_Witness ==
    /\ ExactlyOneEnrichmentFailed /\ github.readme = "notok"
    /\ Contains(userContent, "README not found.")
    /\ ~Contains(userContent, "No open issues found.")

\* C7 as claimed: once the generation service has answered with a status, the
\* Response follows from the status alone: 429 and 402 are passed on with
\* their own message, any other non-success status is a 500 with the fixed
\* generic message, and success is a 200 event stream with the upstream body.
C7_StatusMapping ==
    (spc = "responded" /\ upstream.kind \in {"status", "textfail"}) =>
        /\ upstream.status = 429 =>
              response = [status |-> 429, ctype |-> "application/json",
                          error |-> <<"Rate limit exceeded. Please try again later.">>,
                          body |-> ""]
        /\ upstream.status = 402 =>
              response = [status |-> 402, ctype |-> "application/json",
                          error |-> <<"AI usage limit reached. Please add credits.">>,
                          body |-> ""]
        /\ upstream.status \in {401, 503} =>
              /\ response = [status |-> 500, ctype |-> "application/json",
                             error |-> <<"AI analysis failed.">>, body |-> ""]
              /\ \A k \in 1..Len(upstream.text) : ~Contains(response.error, upstream.text[k])
        /\ upstream.status = 200 =>
              response = [status |-> 200, ctype |-> "text/event-stream",
                          error |-> <<>>, body |-> upstream.body]

\* C8: a request carrying owner and repo that is handled while the secret is
\* not configured ends at once in a 500 whose error names the missing secret,
\* without any outbound fetch; the secret is looked up when the request is
\* handled, so this holds whatever it was when earlier requests were handled.
C8_MissingKeyIs500 ==
    [][(/\ spc \in {"idle", "responded"}
        /\ LOVABLE_API_KEY' = LOVABLE_API_KEY
        /\ ~LOVABLE_API_KEY
        /\ req'.method = "POST" /\ req'.body = "object"
        /\ req'.owner \notin {UNDEF, ""} /\ req'.repo \notin {UNDEF, ""})
       => (/\ spc' = "responded"
           /\ response' = [status |-> 500, ctype |-> "application/json",
                           error |-> <<"LOVABLE_API_KEY is not configured">>,
                           body |-> ""]
           /\ calls' = {})]_vars

C8_Witness ==
    /\ spc = "responded" /\ ~LOVABLE_API_KEY
    /\ req.owner = "foo" /\ req.repo = "bar"
    /\ response.status = 500
    /\ response.error = <<"LOVABLE_API_KEY is not configured">>
    /\ calls = {}

\* C9: a request whose JSON object lacks owner or repo (absent or empty) is
\* answered 400 with the fixed message and causes no outbound fetch.
C9_MissingFieldIs400 ==
    (/\ req.method = "POST" /\ req.body = "object"
     /\ (req.owner \in {UNDEF, ""} \/ req.repo \in {UNDEF, ""}))
    => /\ spc = "responded"
       /\ response = [status |-> 400, ctype |-> "application/json",
                      error |-> <<"Please provide owner and repo">>, body |-> ""]
       /\ calls = {}
       /\ inflight = {}

C9_Witness ==
    /\ req.method = "POST" /\ req.body = "object"
    /\ req.owner = "foo" /\ req.repo = ""
    /\ LOVABLE_API_KEY
    /\ response.status = 400

(***************************************************************************)
(*                          page component                                 *)
(***************************************************************************)

\* ---- String.prototype on sequences of characters ----
StartsWith(s, p) == Len(s) >= Len(p) /\ SubSeq(s, 1, Len(p)) = p
EndsWith(s, p) == Len(s) >= Len(p) /\ SubSeq(s, Len(s) - Len(p) + 1, Len(s)) = p
\* s.slice(from)
Slice(s, from) == SubSeq(s, from + 1, Len(s))
\* s.indexOf(c): the 0-based index of the first c, -1 when there is none
IndexOf(s, c) ==
    LET at == {i \in 1..Len(s) : s[i] = c}
    IN  IF at = {} THEN -1 ELSE (CHOOSE i \in at : \A j \in at : i <= j) - 1

WhiteSpace == {" ", "\t", "\n", "\r"}
RECURSIVE TrimStart(_)
TrimStart(s) ==
    IF s # <<>> /\ Head(s) \in WhiteSpace THEN TrimStart(Tail(s)) ELSE s
RECURSIVE TrimEnd(_)
TrimEnd(s) ==
    IF s # <<>> /\ s[Len(s)] \in WhiteSpace THEN TrimEnd(SubSeq(s, 1, Len(s) - 1)) ELSE s
Trim(s) == TrimEnd(TrimStart(s))

\* ---- the wire ----
\* A byte is a one-character string (ASCII) or one of the two bytes "c3", "a9"
\* that encode U+00E9 in UTF-8. A character is a one-character string, "<e9>"
\* (U+00E9) or "<fffd>" (U+FFFD, the replacement character).
LeadBytes == {"c3"}
ContinuationBytes == {"a9"}
EAcute == "<e9>"
Replacement == "<fffd>"

\* The concatenation of pieces[lo..hi]
RECURSIVE ConcatRange(_, _, _)
ConcatRange(pieces, lo, hi) ==
    IF lo > hi THEN <<>>
    ELSE IF lo = hi THEN pieces[lo]
    ELSE LET mid == (lo + hi) \div 2
         IN  ConcatRange(pieces, lo, mid) \o ConcatRange(pieces, mid + 1, hi)

\* The UTF-8 decoder's step on one byte b: what it emits when no character
\* is unfinished.
Utf8Fresh(b) ==
    IF b \in LeadBytes THEN <<>>
    ELSE IF b \in ContinuationBytes THEN <<Replacement>>
    ELSE <<b>>

\* The UTF-8 decoder over the bytes bs, pend being the bytes of a character
\* begun before them. A character is unfinished after a byte exactly when that
\* byte is a lead byte; a continuation byte completes it, any other byte makes
\* it a replacement character and is then decoded afresh.
Utf8(pend, bs) ==
    LET unfinished(i) == IF i = 1 THEN pend # <<>> ELSE bs[i - 1] \in LeadBytes
        piece(i) ==
            IF unfinished(i)
            THEN IF bs[i] \in ContinuationBytes THEN <<EAcute>>
                 ELSE <<Replacement>> \o Utf8Fresh(bs[i])
            ELSE Utf8Fresh(bs[i])
    IN  [text |-> ConcatRange([i \in 1..Len(bs) |-> piece(i)], 1, Len(bs)),
         pending |-> IF bs = <<>> THEN pend
                     ELSE IF bs[Len(bs)] \in LeadBytes THEN <<bs[Len(bs)]>>
                     ELSE <<>>]

\* decode without { stream: true }: an unfinished character at the end of the
\* chunk is replaced, not kept
decode_NoStream(pend, value) ==
    LET r == Utf8(<<>>, value)
    IN  [text |-> IF r.pending # <<>> THEN Append(r.text, Replacement) ELSE r.text,
         pending |-> <<>>]

\* TextDecoder.decode(value, { stream: true })
decode(pend, value) == Utf8(pend, value)

DataPrefix ==
    <<"d", "a", "t", "a", ":", " ">>

DoneText ==
    <<"[", "D", "O", "N", "E", "]">>

ContentPre ==
    <<"{", "\"", "c", "h", "o", "i", "c", "e", "s", "\"", ":", "[", "{",
      "\"", "d", "e", "l", "t", "a", "\"", ":", "{", "\"", "c", "o", "n",
      "t", "e", "n", "t", "\"", ":", "\"">>

ContentPost ==
    <<"\"", "}", "}", "]", "}">>

EmptyObjectText == <<"{", "}">>

TruncatedText == <<"{", "\"", "c">>

NullText == <<"n", "u", "l", "l">>

\* JSON.parse on the texts the wire vocabulary can put in a data line: a delta
\* record {"choices":[{"delta":{"content":"..."}}]}, the empty object {} and
\* null parse; every other text of the vocabulary is no JSON and throws.
\*   threw: SyntaxError; isNull: the value null; hasContent/content: the
\*   string at choices[0].delta.content
JSONParse(t) ==
    IF t = NullText
    THEN [threw |-> FALSE, isNull |-> TRUE, hasContent |-> FALSE, content |-> <<>>]
    ELSE IF t = EmptyObjectText
    THEN [threw |-> FALSE, isNull |-> FALSE, hasContent |-> FALSE, content |-> <<>>]
    ELSE IF /\ Len(t) >= Len(ContentPre) + Len(ContentPost)
            /\ StartsWith(t, ContentPre) /\ EndsWith(t, ContentPost)
            /\ \A i \in (Len(ContentPre) + 1)..(Len(t) - Len(ContentPost)) :
                   t[i] \notin {"\"", "\\", "\n", "\r", "\t"}
    THEN [threw |-> FALSE, isNull |-> FALSE, hasContent |-> TRUE,
          content |-> SubSeq(t, Len(ContentPre) + 1, Len(t) - Len(ContentPost))]
    ELSE [threw |-> TRUE, isNull |-> FALSE, hasContent |-> FALSE, content |-> <<>>]

\* the try block throwing also when the record carries no text
ParseFailed_NoText(parsed) == parsed.threw \/ parsed.isNull \/ parsed.content = <<>>
\* try { JSON.parse(jsonStr); parsed.choices?.[0]?.delta?.content } catch: the
\* text is no JSON, or it is null and reading parsed.choices throws
ParseFailed(parsed) == parsed.threw \/ parsed.isNull

\* result += content overwriting instead of appending
Accumulate_Overwrite(res, content) == content
\* result += content
Accumulate(res, content) == res \o content

\* buffer = buffer: the failed line is not put back
Restore_Dropped(line, rest) == rest
\* buffer = line + "\n" + buffer
Restore(line, rest) == line \o <<"\n">> \o rest

\* The inner while loop. st holds the locals buffer and result, the histories
\* deltas and sentinelSeen, and why the loop was left: "exhausted" (no newline
\* left), "sentinel" (break at [DONE]) or "parsefail" (break in the catch).
RECURSIVE Drain(_)
Drain(st) ==
    LET newlineIndex == IndexOf(st.buffer, "\n") IN
    IF newlineIndex = -1 THEN [st EXCEPT !.left = "exhausted"]
    ELSE
      LET line0 == SubSeq(st.buffer, 1, newlineIndex)
          rest  == Slice(st.buffer, newlineIndex + 1)
          line  == IF EndsWith(line0, <<"\r">>)
                   THEN SubSeq(line0, 1, Len(line0) - 1) ELSE line0
      IN
      IF ~StartsWith(line, DataPrefix)
      THEN Drain([st EXCEPT !.buffer = rest])
      ELSE
        LET jsonStr == Trim(Slice(line, 6))
            parsed  == JSONParse(jsonStr)
        IN
        IF jsonStr = DoneText
        THEN [st EXCEPT !.buffer = rest, !.sentinelSeen = TRUE, !.left = "sentinel"]
        ELSE IF ParseFailed(parsed)
        THEN [st EXCEPT !.buffer = Restore(line, rest), !.left = "parsefail"]
        ELSE IF parsed.content # <<>>
        THEN Drain([st EXCEPT !.buffer = rest,
                              !.result = Accumulate(st.result, parsed.content),
                              !.deltas = Append(st.deltas, parsed.content),
                              !.set = TRUE])
        ELSE Drain([st EXCEPT !.buffer = rest,
                              !.deltas = Append(st.deltas, parsed.content)])

\* buffer = decoder.decode(...): the chunk replacing what was left
BufferAppend_Replace(buf, text) == text
\* buffer += decoder.decode(value, { stream: true })
BufferAppend(buf, text) == buf \o text

Locals(buf, res, ds, seen) ==
    [buffer |-> buf, result |-> res, deltas |-> ds, sentinelSeen |-> seen,
     set |-> FALSE, left |-> "exhausted"]

\* One turn of the outer loop on a chunk: decode, append, drain.
ProcessChunk(st, pend, value) ==
    LET d == decode(pend, value)
        r == Drain([st EXCEPT !.buffer = BufferAppend(st.buffer, d.text),
                              !.set = FALSE])
    IN  [locals |-> r, pending |-> d.pending]

\* if (done) break, flushing the buffer as a last line instead of dropping it
AtEndOfStream_Flush(st) == Drain([st EXCEPT !.buffer = st.buffer \o <<"\n">>, !.set = FALSE])
\* if (done) break: the locals as the loop leaves them
AtEndOfStream(st) == [st EXCEPT !.set = FALSE]

\* ---- the response bodies ----
JsonDelta(content) == ContentPre \o content \o ContentPost
LineA    == DataPrefix \o JsonDelta(<<"A">>) \o <<"\n">>
LineE    == DataPrefix \o JsonDelta(<<"c3", "a9">>) \o <<"\r", "\n">>
LineNone == DataPrefix \o EmptyObjectText \o <<"\n">>
LineBad  == DataPrefix \o TruncatedText \o <<"\r", "\n">>
LineEmpty == DataPrefix \o JsonDelta(<<>>) \o <<"\n">>
LineDone == DataPrefix \o DoneText \o <<"\n">>
LineBlank == <<"\r", "\n">>
\* The lines a response body is made of, by name
WireLine(name) ==
    CASE name = "A"     -> LineA
      [] name = "E"     -> LineE
      [] name = "None"  -> LineNone
      [] name = "Empty" -> LineEmpty
      [] name = "Bad"   -> LineBad
      [] name = "Done"  -> LineDone
      [] name = "Blank" -> LineBlank
WireLines == {"A", "E", "None", "Empty", "Bad", "Done", "Blank"}

\* MaxLines: the most lines of a response body before its closing [DONE] line
MaxLines == 2
\* MaxChunk: the largest chunk the reader hands over, short of all the rest
MaxChunk == 3
\* The sizes of the next chunk when `remaining` bytes are still to come
ChunkSizes(remaining) ==
    {k \in 1..remaining : k <= MaxChunk \/ k = remaining}

\* A response body is written as the names of its lines: up to MaxLines lines
\* of the vocabulary in any order, closed by a [DONE] line or not.
Streams ==
    { ls \o closing :
        ls \in UNION { [1..n -> WireLines] : n \in 0..MaxLines },
        closing \in {<<>>, <<"Done">>} }

\* The bytes of a response body
Bytes(body) == Flatten([i \in 1..Len(body) |-> WireLine(body[i])])

\* ---- the input field (repoInput) ----
UrlPrefixS ==
    <<"h", "t", "t", "p", "s", ":", "/", "/", "g", "i", "t", "h", "u", "b",
      ".", "c", "o", "m", "/">>

UrlPrefix ==
    <<"h", "t", "t", "p", ":", "/", "/", "g", "i", "t", "h", "u", "b", ".",
      "c", "o", "m", "/">>

RepoInputs ==
    { <<" ">>, <<"a", "/", "b", "/", "c">>,
      <<" ">> \o UrlPrefixS \o <<"a", "/", "b", "/", " ">> }

\* [^/\s]+
IsSegment(s) == s # <<>> /\ \A i \in 1..Len(s) : s[i] \notin (WhiteSpace \cup {"/"})

\* ([^/\s]+)\/([^/\s]+)\/?$ on the rest of the input
MatchPath(t) ==
    LET slash == IndexOf(t, "/")
        owner == SubSeq(t, 1, slash)
        tail  == Slice(t, slash + 1)
        repo  == IF EndsWith(tail, <<"/">>) THEN SubSeq(tail, 1, Len(tail) - 1) ELSE tail
    IN  IF slash # -1 /\ IsSegment(owner) /\ IsSegment(repo)
        THEN [ok |-> TRUE, owner |-> owner, repo |-> repo]
        ELSE [ok |-> FALSE, owner |-> <<>>, repo |-> <<>>]

\* repoInput.trim().match(/^(?:https?:\/\/github\.com\/)?([^/\s]+)\/([^/\s]+)\/?$/)
MatchRepo(input) ==
    LET t == Trim(input)
        stripped == IF StartsWith(t, UrlPrefixS) THEN Slice(t, Len(UrlPrefixS))
                    ELSE IF StartsWith(t, UrlPrefix) THEN Slice(t, Len(UrlPrefix))
                    ELSE t
    IN  IF MatchPath(stripped).ok THEN MatchPath(stripped) ELSE MatchPath(t)

\* ---- what the fetch of ANALYZE_URL can come to ----
\* "neterr": fetch rejects; "error": a non-2xx answer whose JSON carries an
\* error; "noerror": one whose JSON carries none; "notjson": one whose body is
\* no JSON; "nobody": a 2xx answer without body; "ok": a 2xx answer with a body.
AggregatorErrors ==
    {"Please provide owner and repo", "AI analysis failed.",
     "Rate limit exceeded. Please try again later."}
AnalyzeOutcomes ==
    [kind : {"neterr", "noerror", "notjson", "nobody"}, error : {""}, stream : {<<>>}]
    \cup [kind : {"error"}, error : AggregatorErrors, stream : {<<>>}]
    \cup [kind : {"ok"}, error : {""}, stream : Streams]

\* The message the catch block shows
ErrorMessage(o) ==
    CASE o.kind = "neterr"  -> "Failed to fetch"
      [] o.kind = "error"   -> o.error
      [] o.kind = "noerror" -> "Analysis failed"
      [] o.kind = "notjson" -> "Unexpected token in JSON"
      [] o.kind = "nobody"  -> "No response stream"
      [] OTHER              -> ""

MsgInvalidFormat == "Invalid format. Use owner/repo or a GitHub URL."
MsgReadFailed == "network error"

(***************************************************************************)
(* parseSections: the report cut into sections at its "## " headings.      *)
(* A text is a sequence of characters; a character of the range            *)
(* U+1F000..U+1FFFF is written "<emoji>", and a key of sectionIcons is     *)
(* written as one symbol, "<Good First Issues>" for the text               *)
(* Good First Issues. The icons are written by name.                       *)
(***************************************************************************)
Emoji == {"<emoji>"}

KeyGoodFirstIssues == "<Good First Issues>"

\* sectionIcons, in the order of its entries
sectionIcons ==
    << [key |-> "<Project Overview>",            icon |-> "<building>"],
       [key |-> "<Tech Stack Analysis>",         icon |-> "<gear>"],
       [key |-> "<Architecture Pattern>",        icon |-> "<puzzle>"],
       [key |-> "<Repository Health Score>",     icon |-> "<chart>"],
       [key |-> KeyGoodFirstIssues,              icon |-> "<bug>"],
       [key |-> "<Contribution Difficulty>",     icon |-> "<target>"],
       [key |-> "<Open Source Onboarding Plan>", icon |-> "<rocket>"] >>

DefaultIcon == "<page>"
LeadingIcon == "<clipboard>"

\* md.split("\n")
RECURSIVE Split(_)
Split(s) ==
    LET nl == IndexOf(s, "\n")
    IN  IF nl = -1 THEN <<s>>
        ELSE <<SubSeq(s, 1, nl)>> \o Split(Slice(s, nl + 1))

\* The length of the run of \s characters of s that starts at index from
RECURSIVE WsRun(_, _)
WsRun(s, from) ==
    IF from <= Len(s) /\ s[from] \in WhiteSpace THEN 1 + WsRun(s, from + 1) ELSE 0

NoMatch == [ok |-> FALSE, title |-> <<>>]
Matched(t) == [ok |-> TRUE, title |-> t]

\* line.match(/^##\s+(?:[\u{1F000}-\u{1FFFF}]\s*)?(.+)/u): whether the line
\* matches and what group 1 captures. The quantifiers are greedy and give
\* back one character when nothing would be left for (.+).
H2Match(line) ==
    IF ~StartsWith(line, <<"#", "#">>) THEN NoMatch
    ELSE
      LET n == WsRun(line, 3)
          a == 3 + n
      IN  IF n = 0 THEN NoMatch
          ELSE IF a > Len(line)
          THEN IF n >= 2 THEN Matched(<<line[Len(line)]>>) ELSE NoMatch
          ELSE IF line[a] \in Emoji
          THEN LET m == WsRun(line, a + 1)
                   b == a + 1 + m
               IN  IF b <= Len(line) THEN Matched(SubSeq(line, b, Len(line)))
                   ELSE IF m >= 1 THEN Matched(<<line[Len(line)]>>)
                   ELSE Matched(<<line[a]>>)
          ELSE Matched(SubSeq(line, a, Len(line)))

\* rawTitle.includes(k), k being a key of sectionIcons
Includes(rawTitle, k) == \E i \in 1..Len(rawTitle) : rawTitle[i] = k

\* Object.entries(sectionIcons).find(([k]) => rawTitle.includes(k))?.[1] || default
IconFor(rawTitle) ==
    LET hits == {i \in 1..Len(sectionIcons) : Includes(rawTitle, sectionIcons[i].key)}
    IN  IF hits = {} THEN DefaultIcon
        ELSE sectionIcons[CHOOSE i \in hits : \A j \in hits : i <= j].icon

NoCurrent == [present |-> FALSE, icon |-> "", title |-> <<>>, lines |-> <<>>]

\* { icon, title, content: current.lines.join("\n").trim() }
CloseSection(current) ==
    [icon |-> current.icon, title |-> current.title,
     content |-> Trim(Join(current.lines, "\n"))]

\* The body of the for loop on one line; st holds sections and current
ParseLine(st, line) ==
    LET h2Match == H2Match(line) IN
    IF h2Match.ok
    THEN LET rawTitle == Trim(h2Match.title)
         IN  [sections |-> IF st.current.present
                           THEN Append(st.sections, CloseSection(st.current))
                           ELSE st.sections,
              current |-> [present |-> TRUE, icon |-> IconFor(rawTitle),
                           title |-> rawTitle, lines |-> <<>>]]
    ELSE IF st.current.present
    THEN [st EXCEPT !.current.lines = Append(@, line)]
    ELSE IF Trim(line) # <<>>
    THEN LET secs == IF st.sections = <<>> \/ st.sections[Len(st.sections)].title # <<>>
                     THEN Append(st.sections,
                                 [icon |-> LeadingIcon, title |-> <<>>, content |-> <<>>])
                     ELSE st.sections
         IN  [st EXCEPT !.sections =
                  [secs EXCEPT ![Len(secs)].content = @ \o line \o <<"\n">>]]
    ELSE st

RECURSIVE ParseLines(_, _, _)
ParseLines(st, lines, i) ==
    IF i > Len(lines) THEN st ELSE ParseLines(ParseLine(st, lines[i]), lines, i + 1)

\* parseSections putting the section still open in front of the list
parseSections_Unshift(md) ==
    LET st == ParseLines([sections |-> <<>>, current |-> NoCurrent], Split(md), 1)
    IN  IF st.current.present
        THEN <<CloseSection(st.current)>> \o st.sections
        ELSE st.sections
parseSections(md) ==
    LET st == ParseLines([sections |-> <<>>, current |-> NoCurrent], Split(md), 1)
    IN  IF st.current.present
        THEN Append(st.sections, CloseSection(st.current))
        ELSE st.sections

\* useMemo keeping the first list it computed
useMemoSections_Stale(previous, text) ==
    IF previous # <<>> THEN previous ELSE parseSections(text)
\* useMemo(() => parseSections(analysis), [analysis])
useMemoSections(previous, text) == parseSections(text)

ServerIdle ==
    /\ LOVABLE_API_KEY = TRUE
    /\ spc = "idle"
    /\ req = NoRequest
    /\ readme = <<>>
    /\ issues = <<>>
    /\ stats = NullStats
    /\ inflight = {}
    /\ github = NoAnswers
    /\ answers = NoOutcomes
    /\ order = <<>>
    /\ calls = {}
    /\ upstream = NoUpstream
    /\ userContent = <<>>
    /\ response = NoResponse
    /\ genLog = <<>>

ClientInit == ClientIdle /\ ServerIdle

\* A state setter called with value new: React drops the update of a component
\* that is no longer mounted.
SetState(new, old) == IF mounted THEN new ELSE old

\* handleAnalyze up to its first await, v being repoInput when it is called
handleAnalyze(v) ==
    /\ analysis' = <<>>
    /\ analysisSections' = useMemoSections(analysisSections, analysis')
    /\ stream' = <<>> /\ pos' = 0 /\ done' = FALSE /\ decoder' = <<>>
    /\ buffer' = <<>> /\ result' = <<>> /\ deltas' = <<>> /\ sentinelSeen' = FALSE
    /\ left' = "none"
    /\ IF ~MatchRepo(v).ok
       THEN /\ error' = MsgInvalidFormat
            /\ cpc' = "done"
            /\ UNCHANGED isLoading
       ELSE /\ error' = ""
            /\ isLoading' = TRUE
            /\ cpc' = "fetching"
    /\ UNCHANGED <<mounted, serverVars>>

\* disabled: the button cannot be clicked on an empty field only
Disabled_BlankOnly(v) == Trim(v) = <<>>
\* disabled={isLoading || !repoInput.trim()}
Disabled(v) == isLoading \/ Trim(v) = <<>>

\* Button onClick, v being the text of the field
ClickAnalyze(v) ==
    /\ mounted
    /\ ~Disabled(v)
    /\ handleAnalyze(v)

\* Input onKeyDown with Enter, v being the text of the field
PressEnter(v) ==
    /\ mounted
    /\ ~isLoading
    /\ handleAnalyze(v)

\* setIsLoading(false) written in the catch block only
Finally_CatchOnly(threw) == ~threw
\* finally { setIsLoading(false) }: isLoading after the try statement, whether
\* its body threw or ran to its end
Finally(threw) == FALSE

\* handleAnalyze from the answer of fetch to the first reader.read()
FetchSettles ==
    /\ cpc = "fetching"
    /\ \E o \in AnalyzeOutcomes :
          IF o.kind = "ok"
          THEN /\ stream' = o.stream
               /\ cpc' = "reading"
               /\ UNCHANGED <<error, isLoading>>
          ELSE /\ error' = SetState(ErrorMessage(o), error)
               /\ isLoading' = Finally(TRUE)
               /\ cpc' = "done"
               /\ UNCHANGED stream
    /\ UNCHANGED <<analysis, pos, done, decoder, buffer, result, deltas,
                   sentinelSeen, left, analysisSections, mounted, serverVars>>

\* reader.read() hands over the next bytes: one turn of the outer loop
ReadChunk ==
    /\ cpc = "reading"
    /\ \E k \in ChunkSizes(Len(Bytes(stream)) - pos) :
        \E value \in {SubSeq(Bytes(stream), pos + 1, pos + k)} :
        \E r \in {ProcessChunk(Locals(buffer, result, deltas, sentinelSeen),
                                decoder, value)} :
              /\ buffer' = r.locals.buffer
              /\ result' = r.locals.result
              /\ deltas' = r.locals.deltas
              /\ sentinelSeen' = r.locals.sentinelSeen
              /\ decoder' = r.pending
              /\ left' = r.locals.left
              /\ analysis' = IF r.locals.set
                              THEN SetState(r.locals.result, analysis) ELSE analysis
              /\ pos' = pos + k
    /\ analysisSections' = useMemoSections(analysisSections, analysis')
    /\ done' = FALSE
    /\ UNCHANGED <<cpc, isLoading, error, stream, mounted, serverVars>>

\* reader.read() reports the end of the stream: break, finally
ReadDone ==
    /\ cpc = "reading"
    /\ done' = TRUE
    /\ LET r == AtEndOfStream(Locals(buffer, result, deltas, sentinelSeen))
       IN  /\ buffer' = r.buffer
           /\ result' = r.result
           /\ deltas' = r.deltas
           /\ sentinelSeen' = r.sentinelSeen
           /\ analysis' = IF r.set THEN SetState(r.result, analysis) ELSE analysis
    /\ analysisSections' = useMemoSections(analysisSections, analysis')
    /\ isLoading' = Finally(FALSE)
    /\ cpc' = "done"
    /\ UNCHANGED <<error, stream, pos, decoder, left, mounted, serverVars>>

\* reader.read() rejects: catch, finally
ReadFails ==
    /\ cpc = "reading"
    /\ error' = SetState(MsgReadFailed, error)
    /\ isLoading' = Finally(TRUE)
    /\ cpc' = "done"
    /\ UNCHANGED <<analysis, stream, pos, done, decoder, buffer, result, deltas,
                   sentinelSeen, left, analysisSections, mounted, serverVars>>

ClientNext ==
    \/ \E v \in RepoInputs : ClickAnalyze(v)
    \/ \E v \in RepoInputs : PressEnter(v)
    \/ FetchSettles
    \/ ReadChunk
    \/ ReadDone
    \/ ReadFails

SpecClient == ClientInit /\ [][ClientNext]_vars

\* SpecClient where the aggregator answers every request and every response
\* stream that is being read ends or fails: fetch() settles, and reader.read()
\* reports the end of the stream or rejects.
SpecClientLive ==
    /\ ClientInit
    /\ [][ClientNext]_vars
    /\ WF_vars(FetchSettles)
    /\ WF_vars(ReadDone \/ ReadFails)

\* The user navigates away: the component is unmounted and its state is gone.
\* handleAnalyze registers no cleanup, so a run in flight goes on as it is.
Unmount ==
    /\ mounted
    /\ mounted' = FALSE
    /\ analysis' = <<>>
    /\ analysisSections' = <<>>
    /\ error' = ""
    /\ isLoading' = FALSE
    /\ UNCHANGED <<cpc, stream, pos, done, decoder, buffer, result, deltas,
                   sentinelSeen, left, serverVars>>

TeardownNext ==
    \/ \E v \in RepoInputs : ClickAnalyze(v)
    \/ \E v \in RepoInputs : PressEnter(v)
    \/ FetchSettles
    \/ ReadChunk
    \/ ReadDone
    \/ ReadFails
    \/ Unmount

\* SpecTeardown: the page component with the teardown of the session
SpecTeardown == ClientInit /\ [][TeardownNext]_vars

(***************************************************************************)
(*               Properties of the decoding loop                           *)
(***************************************************************************)

\* The characters of the bytes handed over so far, decoded in one piece
Received == Utf8(<<>>, SubSeq(Bytes(stream), 1, pos)).text

\* The newline-terminated lines of a text, each without its newline
RECURSIVE CompleteLines(_)
CompleteLines(s) ==
    LET nl == IndexOf(s, "\n")
    IN  IF nl = -1 THEN <<>>
        ELSE <<SubSeq(s, 1, nl)>> \o CompleteLines(Slice(s, nl + 1))

\* What a line of the wire format is: "ignored" (no data line), "sentinel",
\* "delta" (a data line with a parseable record, content being its text, empty
\* when it has none) or "malformed" (a data line with anything else).
FrameOf(rawLine) ==
    LET line == IF EndsWith(rawLine, <<"\r">>)
                THEN SubSeq(rawLine, 1, Len(rawLine) - 1) ELSE rawLine
        payload == Trim(Slice(line, 6))
        record == JSONParse(payload)
    IN  IF ~StartsWith(line, DataPrefix) THEN [kind |-> "ignored", content |-> <<>>]
        ELSE IF payload = DoneText THEN [kind |-> "sentinel", content |-> <<>>]
        ELSE IF record.threw \/ record.isNull THEN [kind |-> "malformed", content |-> <<>>]
        ELSE [kind |-> "delta", content |-> record.content]

Frames(text) == LET ls == CompleteLines(text) IN [i \in 1..Len(ls) |-> FrameOf(ls[i])]

\* The contents of the delta frames among fs[1..n], in order
RECURSIVE DeltasOf(_, _)
DeltasOf(fs, n) ==
    IF n = 0 THEN <<>>
    ELSE IF fs[n].kind = "delta" THEN Append(DeltasOf(fs, n - 1), fs[n].content)
    ELSE DeltasOf(fs, n - 1)

\* The index of the first sentinel frame, Len(fs) + 1 when there is none
FirstSentinel(fs) ==
    LET at == {i \in 1..Len(fs) : fs[i].kind = "sentinel"}
    IN  IF at = {} THEN Len(fs) + 1 ELSE CHOOSE i \in at : \A j \in at : i <= j

\* A valid frame stream: newline-terminated lines, every data line a parseable
\* delta record, closed by the one data: [DONE] line.
ValidFrameStream(bytes) ==
    LET text == Utf8(<<>>, bytes).text
        fs == Frames(text)
    IN  /\ text # <<>> /\ text[Len(text)] = "\n"
        /\ fs # <<>>
        /\ fs[Len(fs)].kind = "sentinel"
        /\ \A i \in 1..(Len(fs) - 1) : fs[i].kind \in {"delta", "ignored"}

IsPrefix(p, s) == Len(p) <= Len(s) /\ SubSeq(s, 1, Len(p)) = p

\* The stream has been handed over whole and then reported ended.
ReadToTheEnd == cpc = "done" /\ done /\ pos = Len(Bytes(stream))

\* C1: for a valid frame stream, however it was cut into chunks, the deltas
\* extracted and the text accumulated when the stream has ended are those of
\* the stream handed over as one single chunk, and the deltas are the payload
\* texts of its frames in order.
C1_ChunkBoundaryInvariance ==
    (ReadToTheEnd /\ ValidFrameStream(Bytes(stream))) =>
        LET whole == ProcessChunk(Locals(<<>>, <<>>, <<>>, FALSE), <<>>, Bytes(stream)).locals
            fs == Frames(Utf8(<<>>, Bytes(stream)).text)
        IN  /\ deltas = whole.deltas
            /\ analysis = whole.result
            /\ deltas = DeltasOf(fs, Len(fs))
            /\ analysis = Flatten(deltas)

C1_Witness ==
    /\ ReadToTheEnd
    /\ stream = <<"E", "A", "Done">>
    /\ deltas = << <<EAcute>>, <<"A">> >>
    /\ analysis = <<EAcute, "A">>
    /\ error = ""

\* C2: the accumulated report is empty when an analysis starts; during the
\* analysis it is at every moment the concatenation, in arrival order, of the
\* deltas decoded so far, and each of its values is a prefix of the next.
C2_AccumulatedReport ==
    /\ analysis = Flatten(deltas)
    /\ [][/\ analysis' = Flatten(deltas')
          /\ cpc \in {"idle", "done"} => analysis' = <<>>
          /\ cpc \in {"fetching", "reading"} => IsPrefix(analysis, analysis')]_vars

C2_Witness ==
    /\ cpc = "reading"
    /\ deltas = << <<"A">>, <<EAcute>> >>
    /\ analysis = <<"A", EAcute>>

\* C3 as claimed: a data line that fails to parse costs nothing: no error is
\* shown, and when the stream has ended the text holds the delta of every
\* complete well-formed data frame received before the sentinel, those after
\* the failed line included.
C3_ParseFailureLosesNothing ==
    (cpc = "done" /\ done) =>
        LET fs == Frames(Received)
        IN  /\ error = ""
            /\ IsPrefix(Flatten(DeltasOf(fs, FirstSentinel(fs) - 1)), analysis)

\* C4 as claimed: once a [DONE] frame has been decoded, nothing is added to
\* the accumulated text, whatever arrives afterwards.
C4_NothingAfterSentinel ==
    [][(sentinelSeen /\ cpc = "reading") => analysis' = analysis]_vars

\* C10: when reader.read() reports the end of the stream the loop ends: what
\* is left in the buffer adds nothing to the text, no error is set, the text
\* stays as it was and the analysis is over.
C10_EndOfStream ==
    [][(cpc = "reading" /\ done') =>
          /\ analysis' = analysis
          /\ result' = result
          /\ deltas' = deltas
          /\ error' = "" /\ error = ""
          /\ cpc' = "done"]_vars

\* The stream ended in the middle of a frame: the buffer holds the beginning
\* of a data line, the text decoded before it is still there.
C10_Witness ==
    /\ cpc = "done" /\ done /\ error = ""
    /\ pos < Len(Bytes(stream))
    /\ StartsWith(buffer, DataPrefix) /\ Len(buffer) > Len(DataPrefix)
    /\ IndexOf(buffer, "\n") = -1
    /\ analysis = <<"A">>

(***************************************************************************)
(* SpecSections: the report growing delta by delta and the sections        *)
(* derived from it, whatever the wire format that carried the deltas.      *)
(***************************************************************************)

\* The texts a delta can carry
ReportDeltas ==
    { <<KeyGoodFirstIssues>>, <<KeyGoodFirstIssues, "\n">>, <<"\n">>,
      <<"#", "#", " ">>, <<" ">>, <<"<emoji>">> }

\* MaxDeltas: the largest number of deltas of a report
MaxDeltas == 5

\* An analysis whose request was accepted and whose stream is being read
SectionsInit ==
    /\ ServerIdle
    /\ cpc = "reading"
    /\ isLoading = TRUE
    /\ analysis = <<>>
    /\ error = ""
    /\ stream = <<>>
    /\ pos = 0
    /\ done = FALSE
    /\ decoder = <<>>
    /\ buffer = <<>>
    /\ result = <<>>
    /\ deltas = <<>>
    /\ sentinelSeen = FALSE
    /\ left = "none"
    /\ analysisSections = <<>>
    /\ mounted = TRUE

\* result += content; setAnalysis(result), and the render that follows
AppendDelta(content) ==
    /\ cpc = "reading"
    /\ Len(deltas) < MaxDeltas
    /\ result' = Accumulate(result, content)
    /\ deltas' = Append(deltas, content)
    /\ analysis' = SetState(result', analysis)
    /\ analysisSections' = useMemoSections(analysisSections, analysis')
    /\ UNCHANGED <<cpc, isLoading, error, stream, pos, done, decoder, buffer,
                   sentinelSeen, left, mounted, serverVars>>

SectionsNext == \E content \in ReportDeltas : AppendDelta(content)

SpecSections == SectionsInit /\ [][SectionsNext]_vars

\* The lines of a text that parseSections takes for headings, as indices
HeadingLines(text) ==
    LET ls == Split(text) IN {i \in 1..Len(ls) : H2Match(ls[i]).ok}

\* C11 as claimed: the empty text gives no section; a non-empty text without a
\* heading line gives exactly one section, its title empty and its body the
\* whole text (compared here up to white space at both ends, the texts made
\* of white space only left aside).
C11_NoHeadingOneSection ==
    /\ analysis = <<>> => analysisSections = <<>>
    /\ (Trim(analysis) # <<>> /\ HeadingLines(analysis) = {}) =>
          /\ Len(analysisSections) = 1
          /\ analysisSections[1].title = <<>>
          /\ Trim(analysisSections[1].content) = Trim(analysis)

\* The elements of a set of numbers in ascending order
RECURSIVE Ascending(_)
Ascending(S) ==
    IF S = {} THEN <<>>
    ELSE LET m == CHOOSE x \in S : \A y \in S : x <= y
         IN  <<m>> \o Ascending(S \ {m})

\* The text before the first heading line of a text that has one
BeforeFirstHeading(text) ==
    LET ls == Split(text)
        first == Ascending(HeadingLines(text))[1]
    IN  Join(SubSeq(ls, 1, first - 1), "\n")

\* C12 as claimed: a text with content before its first heading line gives one
\* leading section, first in the list, with the fixed icon and an empty title,
\* whose body is the text before the first heading (compared here up to white
\* space at both ends); then one titled section per heading line, in order.
C12_LeadingSection ==
    (HeadingLines(analysis) # {} /\ Trim(BeforeFirstHeading(analysis)) # <<>>) =>
        LET ls == Split(analysis)
            hs == Ascending(HeadingLines(analysis))
        IN  /\ Len(analysisSections) = 1 + Len(hs)
            /\ analysisSections[1].icon = LeadingIcon
            /\ analysisSections[1].title = <<>>
            /\ Trim(analysisSections[1].content) = Trim(BeforeFirstHeading(analysis))
            /\ \A k \in 1..Len(hs) :
                   analysisSections[k + 1].title = Trim(H2Match(ls[hs[k]]).title)

\* C21: appending a delta to the accumulated text leaves every section but
\* the last one as it was (icon, title and body) and at its index; the list
\* never gets shorter, so new sections come at the end only.
C21_StableUnderAppend ==
    [][\E before \in {parseSections(analysis)} :
       \E after \in {parseSections(analysis')} :
          /\ Len(after) >= Len(before)
          /\ \A i \in 1..(Len(before) - 1) : after[i] = before[i]
          /\ analysisSections' = after]_vars

\* Two titled sections, the delta received last having changed the title of
\* the second one and left the first one alone
C21_Witness ==
    /\ deltas = << <<"#", "#", " ">>, <<KeyGoodFirstIssues, "\n">>,
                   <<"#", "#", " ">>, <<"<emoji>">>, <<KeyGoodFirstIssues>> >>
    /\ parseSections(Flatten(SubSeq(deltas, 1, 4)))[2].title = <<"<emoji>">>
    /\ Len(analysisSections) = 2
    /\ analysisSections[1] = parseSections(Flatten(SubSeq(deltas, 1, 4)))[1]
    /\ analysisSections[2] = [icon |-> "<bug>", title |-> <<KeyGoodFirstIssues>>,
                              content |-> <<>>]

\* C15: in every state the section list shown is parseSections of the whole
\* accumulated text, that is of all the deltas received so far put together;
\* being recomputed from the text alone, it is the same for the same text.
C15_SectionsDerived ==
    /\ analysisSections = parseSections(analysis)
    /\ analysisSections = parseSections(Flatten(deltas))

\* A leading section and a titled one, the text having come in three deltas
C15_Witness ==
    /\ Len(deltas) = 3
    /\ Len(analysisSections) = 2
    /\ analysisSections[1] = [icon |-> LeadingIcon, title |-> <<>>,
                              content |-> <<KeyGoodFirstIssues, "\n">>]
    /\ analysisSections[2] = [icon |-> "<bug>", title |-> <<KeyGoodFirstIssues>>,
                              content |-> <<>>]

(***************************************************************************)
(*          Further properties of the analyze-repo edge function           *)
(***************************************************************************)

\* C13: the three collector fetches are started together; in whatever order
\* they settle and however each of them ended, the handler goes on only when
\* all three have settled, each result is the one its own fetch function makes
\* of its own answer, and the prompt is built from these three results alone.
C13_CollectorsIndependent ==
    /\ spc = "collect" =>
          /\ calls = Collectors
          /\ inflight \cup {order[i] : i \in 1..Len(order)} = Collectors
    /\ (spc \in {"generate", "responded"} /\ Collectors \subseteq calls) =>
          /\ Len(order) = 3 /\ {order[i] : i \in 1..3} = Collectors
          /\ readme = fetchReadme(answers.readme)
          /\ issues = fetchIssues(answers.issues)
          /\ stats = fetchRepoStats(answers.stats)
          /\ answers.stats.kind = "ok" =>
                /\ "gen" \in calls
                /\ userContent = BuildUserContent(req.owner, req.repo,
                                                  fetchRepoStats(answers.stats),
                                                  fetchReadme(answers.readme),
                                                  fetchIssues(answers.issues))

\* The README fetch failed last, after the issues fetch had failed and the
\* statistics had arrived; the generation call is made all the same.
C13_Witness ==
    /\ spc = "generate" /\ "gen" \in calls
    /\ order = <<"stats", "issues", "readme">>
    /\ answers.readme.kind = "neterr"
    /\ answers.issues.kind = "notok"
    /\ answers.stats = [kind |-> "ok", data |-> RawStats1]
    /\ Contains(userContent, "Failed to fetch README.")
    /\ Contains(userContent, "No open issues found.")
\* A POST whose body is a JSON object, owner or repo absent or empty
LacksField(r) == r.owner \in {UNDEF, ""} \/ r.repo \in {UNDEF, ""}

IsObjectPost(r) == r.method = "POST" /\ r.body = "object"

\* What holds of a request once it is past the first checks
C18_Decided ==
    /\ spc \in {"collect", "generate"} => response = NoResponse
    /\ spc = "responded" => response # NoResponse
    /\ (spc = "responded" /\ Collectors \subseteq calls /\ answers.stats.kind # "ok") =>
          response.status = 404 /\ "gen" \notin calls
    /\ (spc = "responded" /\ "gen" \in calls) =>
          /\ answers.stats.kind = "ok"
          /\ response.status =
                IF upstream.kind = "neterr" THEN 500
                ELSE IF upstream.status = 429 THEN 429
                ELSE IF upstream.status = 402 THEN 402
                ELSE IF upstream.status \in 200..299 THEN 200
                ELSE 500
    /\ (response.status = 200 /\ response.ctype = "text/event-stream") =>
          /\ IsObjectPost(req) /\ ~LacksField(req)
          /\ calls = Collectors \cup {"gen"}
          /\ answers.stats.kind = "ok"
          /\ upstream.kind = "status" /\ upstream.status \in 200..299

\* C18: a request carrying a JSON object is decided in this order: owner or
\* repo missing, 400 and no outbound call; else the secret missing, the 500
\* that names it and no outbound call, not even to GitHub; else the three
\* collector fetches, and statistics unavailable, 404 and no generation call;
\* else the generation call, whose status gives 429, 402, 500 or the 200
\* event stream. No response exists before the decision, one exists after it,
\* and a 200 event stream is returned only when all the earlier checks passed
\* and the generation service answered with success.
C18_Precedence ==
    /\ []C18_Decided
    /\ [][(spc \in {"idle", "responded"} /\ IsObjectPost(req')
           /\ LOVABLE_API_KEY' = LOVABLE_API_KEY) =>
             IF LacksField(req')
             THEN spc' = "responded" /\ response'.status = 400 /\ calls' = {}
             ELSE IF ~LOVABLE_API_KEY
             THEN /\ spc' = "responded" /\ calls' = {}
                  /\ response'.status = 500
                  /\ response'.error = <<"LOVABLE_API_KEY is not configured">>
             ELSE spc' = "collect" /\ calls' = Collectors /\ response' = NoResponse]_vars

\* All the checks passed and the generation service answered 200
C18_Witness ==
    /\ spc = "responded"
    /\ req.owner = "k8s" /\ req.repo = "bar"
    /\ response = [status |-> 200, ctype |-> "text/event-stream", error |-> <<>>,
                   body |-> "sse-b"]
    /\ calls = Collectors \cup {"gen"}
    /\ answers.readme.kind = "notok"

(***************************************************************************)
(*              Further properties of the decoding loop                    *)
(***************************************************************************)

\* The buffer a pass starts from: what was left, then the chunk, decoded
PassInput == buffer \o decode(decoder, SubSeq(Bytes(stream), pos + 1, pos')).text

\* A step of the read loop that hands over a chunk
ChunkStep == cpc = "reading" /\ cpc' = "reading" /\ pos' > pos

\* s without the carriage return that ends its first line, if there is one
DropCR(s) ==
    LET nl == IndexOf(s, "\n")
    IN  IF nl >= 1 /\ s[nl] = "\r" THEN SubSeq(s, 1, nl - 1) \o Slice(s, nl) ELSE s

\* The first line of a text that holds a newline
FirstLine(s) == SubSeq(s, 1, IndexOf(s, "\n"))

\* The pass over input stopped on a parse failure before the line that starts
\* at index i + 1: the lines before it were consumed and their deltas taken,
\* the line is a data line that does not parse, put back as `restored`.
FailedAt(input, i, restored) ==
    /\ i = 0 \/ input[i] = "\n"
    /\ buffer' = restored
    /\ IndexOf(buffer', "\n") # -1
    /\ FrameOf(FirstLine(buffer')).kind = "malformed"
    /\ \E before \in {Frames(SubSeq(input, 1, i))} :
           /\ deltas' = deltas \o DeltasOf(before, Len(before))
           /\ result' = result \o Flatten(DeltasOf(before, Len(before)))
    /\ analysis' = result'
    /\ error' = "" /\ error = ""

\* The places where input can be cut to leave n characters, or up to `slack`
\* more than n
CutsLeaving(input, n, slack) ==
    {Len(input) - k : k \in n..(n + slack)} \cap (0..Len(input))

\* C16 as claimed: after a pass that stopped on a parse failure the buffer is
\* exactly what it was before the failing line was taken out of it (the line,
\* its delimiter and the untouched remainder); the text holds what the lines
\* before it gave and nothing else, and no error is set.
C16_RestoredExactly ==
    [][(ChunkStep /\ left' = "parsefail") =>
          \E input \in {PassInput} :
              \E i \in CutsLeaving(input, Len(buffer'), 0) :
                  \E rest \in {Slice(input, i)} : FailedAt(input, i, rest)]_vars

\* C16: after a pass that stopped on a parse failure the buffer is what it was
\* before the failing line was taken out of it, except that a carriage
\* return that ended the line is not put back; the text holds what the lines
\* before it gave and nothing else, no error is set, and the lines behind the
\* failing one are left in the buffer unexamined.
C16_RestoredWithoutCR ==
    [][(ChunkStep /\ left' = "parsefail") =>
          \E input \in {PassInput} :
              \E i \in CutsLeaving(input, Len(buffer'), 1) :
                  \E rest \in {Slice(input, i)} : FailedAt(input, i, DropCR(rest))]_vars

\* A pass took the delta of a first line and stopped on the second one, which
\* does not parse; the line is back in the buffer without its carriage return,
\* the [DONE] line behind it untouched.
C16_Witness ==
    /\ cpc = "reading" /\ left = "parsefail"
    /\ stream = <<"A", "Bad", "Done">>
    /\ buffer = DataPrefix \o TruncatedText \o <<"\n">> \o LineDone
    /\ analysis = <<"A">>
    /\ error = ""

\* Where a pass over frames fs stops: at the first sentinel or malformed frame,
\* Len(fs) + 1 when there is none
StopIndex(fs) ==
    LET at == {i \in 1..Len(fs) : fs[i].kind \in {"sentinel", "malformed"}}
    IN  IF at = {} THEN Len(fs) + 1 ELSE CHOOSE i \in at : \A j \in at : i <= j

\* A frame that parses and carries no text: the field absent, or empty
NoTextFrame == [kind |-> "delta", content |-> <<>>]

\* C17: when a pass comes to a data frame that parses but carries no text (the
\* content field absent or the empty string), the frame is consumed like any
\* other, it is no parse failure, it adds nothing to the text, and the pass
\* goes on with the lines behind it until the sentinel, a line that does not
\* parse, or the end of the complete lines.
C17_NoTextFrameConsumed ==
    [][ChunkStep =>
          \E input \in {PassInput} : \E fs \in {Frames(input)} :
          \E stop \in {StopIndex(fs)} :
              (\E j \in 1..(stop - 1) : fs[j] = NoTextFrame) =>
                  /\ deltas' = deltas \o DeltasOf(fs, stop - 1)
                  /\ result' = result \o Flatten(DeltasOf(fs, stop - 1))
                  /\ analysis' = analysis \o Flatten(DeltasOf(fs, stop - 1))
                  /\ left' = IF stop > Len(fs) THEN "exhausted"
                             ELSE IF fs[stop].kind = "sentinel" THEN "sentinel"
                             ELSE "parsefail"
                  /\ stop > Len(fs) => IndexOf(buffer', "\n") = -1
                  /\ error' = ""]_vars

\* A frame without content field and one with empty content were consumed, and
\* the pass went on to the [DONE] line behind them.
C17_Witness ==
    /\ cpc = "reading"
    /\ stream = <<"None", "Empty", "Done">>
    /\ deltas = << <<>>, <<>> >>
    /\ left = "sentinel" /\ sentinelSeen
    /\ buffer = <<>>
    /\ analysis = <<>> /\ error = ""

\* What follows the last newline of a text, the whole text when it has none
AfterLastNewline(s) ==
    LET at == {i \in 1..Len(s) : s[i] = "\n"}
    IN  IF at = {} THEN s ELSE Slice(s, CHOOSE i \in at : \A j \in at : i >= j)

\* C19: while the loop waits for the next chunk, the buffer holds a newline
\* only if the last pass was left at the sentinel or on a parse failure; after
\* a pass that ran until no newline was left, the buffer holds no complete
\* line and is exactly the text received after the last newline; before the
\* first chunk it is empty.
C19_BufferBetweenChunks ==
    cpc = "reading" =>
        /\ IndexOf(buffer, "\n") # -1 => left \in {"sentinel", "parsefail"}
        /\ left = "exhausted" =>
              /\ IndexOf(buffer, "\n") = -1
              /\ buffer = AfterLastNewline(Received)
        /\ left = "none" => buffer = <<>> /\ pos = 0

\* The pass was left at the sentinel with a complete line behind it
C19_Witness ==
    /\ cpc = "reading" /\ left = "sentinel"
    /\ stream = <<"Done", "A">>
    /\ buffer = LineA
    /\ analysis = <<>>

\* An analysis is in flight: its request is out or its stream is being read
InFlight == cpc \in {"fetching", "reading"}

\* C20: isLoading is true exactly while an analysis is in flight, from the
\* step that sends the request to the step that ends or fails its stream; an
\* analysis is started only while isLoading is false, so the stream being read
\* is never replaced under the loop, and the text of a finished analysis
\* changes only by the reset of the next one.
C20_OneAnalysisInFlight ==
    /\ [](isLoading <=> InFlight)
    /\ [][/\ (cpc' = "fetching" /\ cpc # "fetching") => (~isLoading /\ isLoading')
          /\ InFlight => (cpc' # "idle" /\ (cpc = "reading" => stream' = stream))
          /\ (cpc = "reading" /\ cpc' = "reading") => IsPrefix(deltas, deltas')
          /\ (cpc = "done" /\ analysis' # analysis) =>
                (analysis' = <<>> /\ deltas' = <<>> /\ pos' = 0)]_vars

\* A stream in flight, part of it read and shown, the page still loading
C20_Witness ==
    /\ cpc = "reading" /\ isLoading
    /\ pos > 0 /\ pos < Len(Bytes(stream))
    /\ analysis = <<"A">>
    /\ stream = <<"A", "E">>

\* C22: with an aggregator that answers and a stream that ends or fails, a
\* page that is loading stops loading; a call of handleAnalyze that the format
\* check rejects leaves isLoading false; while the stream is read the page is
\* loading, the sentinel seen or not, and loading ends only at the end of the
\* stream or with an error shown.
C22_LoadingEnds ==
    /\ isLoading ~> ~isLoading
    /\ [](cpc = "reading" => isLoading)
    /\ [][/\ (cpc' = "done" /\ error' = MsgInvalidFormat) => (~isLoading /\ ~isLoading')
          /\ (isLoading /\ ~isLoading') => (done' \/ error' # "")]_vars

\* The sentinel consumed, the stream not yet at its end, the page loading
C22_Witness ==
    /\ cpc = "reading" /\ isLoading
    /\ sentinelSeen /\ left = "sentinel"
    /\ stream = <<"A", "Done">>
    /\ pos = Len(Bytes(stream))
    /\ analysis = <<"A">>

(***************************************************************************)
(*                 Teardown of the consuming session                       *)
(***************************************************************************)

\* C14 as claimed: once the session is torn down the reader is released: no
\* further chunk is taken from the connection, and the text accumulated so
\* far is gone.
C14_ReaderReleasedOnTeardown ==
    [][~mounted => (pos' = pos /\ cpc' \notin {"fetching", "reading"}
                    /\ analysis' = <<>>)]_vars
====
